---- MODULE Spec2Model ----
(***************************************************************************)
(* A model of projmetrics.py: the per-file line classifier                 *)
(* (count_lines_with_heuristics), the LineCounts merge and the aggregation *)
(* loop of main.                                                           *)
(*                                                                         *)
(* Text is modelled as sequences of one-character strings, so that strip,  *)
(* startswith, endswith and "in" are computed on the characters.           *)
(***************************************************************************)
EXTENDS Integers, Sequences, FiniteSets, TLC

\* ------------------------------------------------------------------------
\* Bounds of the model
\* ------------------------------------------------------------------------

\* Most lines read from one file in the scan specification.
MaxLines == 4

\* Most files the walk yields in one run of main.
MaxFiles == 3

\* Largest field of the LineCounts values merged on their own.
MaxCount == 1

\* ------------------------------------------------------------------------
\* Program constants
\* ------------------------------------------------------------------------

C_LIKE_EXTS ==
  {".java", ".kt", ".groovy", ".js", ".jsx", ".ts", ".tsx", ".css", ".scss",
   ".c", ".cc", ".cpp", ".h", ".hpp"}

HASH_COMMENT_EXTS ==
  {".py", ".pyi", ".sh", ".zsh", ".bash", ".yaml", ".yml", ".toml", ".ini", ".cfg"}

\* The literal set of the python dispatch: ext in {".py", ".pyi"}.
PY_TRIPLE_EXTS == {".py", ".pyi"}

\* The literal set of the opening test: stripped in {"'''", '"""'}.
SQ3 == <<"'", "'", "'">>
DQ3 == <<"\"", "\"", "\"">>
TRIPLE_DELIMS == {SQ3, DQ3}

\* Python's None for py_triple_delim, which otherwise holds a non-empty
\* string: the empty sequence (both are falsy in "if py_triple_delim and").
None == <<>>

\* ------------------------------------------------------------------------
\* str methods used by the classifier
\* ------------------------------------------------------------------------

\* The characters str.strip() removes, those for which str.isspace() holds, up
\* to U+00FF: the space, \t, \n, \r, \f, the control characters 0x0b, 0x1c,
\* 0x1d, 0x1e and 0x1f, the next-line character U+0085 and the no-break space
\* U+00A0; the last seven are written as they are.
Whitespace ==
  {" ", "\t", "\n", "\r", "\f", "", "", "", "", "", "", " "}

RECURSIVE lstrip(_)
lstrip(s) ==
  IF s # <<>> /\ Head(s) \in Whitespace THEN lstrip(Tail(s)) ELSE s

RECURSIVE rstrip(_)
rstrip(s) ==
  IF s # <<>> /\ s[Len(s)] \in Whitespace
  THEN rstrip(SubSeq(s, 1, Len(s) - 1))
  ELSE s

\* str.strip()
strip(s) == rstrip(lstrip(s))

\* str.rstrip("\n")
RECURSIVE rstrip_nl(_)
rstrip_nl(s) ==
  IF s # <<>> /\ s[Len(s)] = "\n"
  THEN rstrip_nl(SubSeq(s, 1, Len(s) - 1))
  ELSE s

\* str.startswith(p)
startswith(s, p) == Len(s) >= Len(p) /\ SubSeq(s, 1, Len(p)) = p

\* str.endswith(p)
endswith(s, p) ==
  Len(s) >= Len(p) /\ SubSeq(s, Len(s) - Len(p) + 1, Len(s)) = p

\* p in s
contains(s, p) ==
  \E i \in 1..(Len(s) - Len(p) + 1) : SubSeq(s, i, i + Len(p) - 1) = p

\* The cased letters up to U+00FF that str.lower() changes, A to Z and the
\* accented capitals U+00C0 to U+00DE (U+00D7, the multiplication sign, is not
\* a letter), each with its lower-case letter at the same index.
UpperCase ==
  <<"A", "B", "C", "D", "E", "F", "G", "H", "I", "J", "K", "L", "M", "N", "O", "P", "Q", "R", "S", "T", "U", "V", "W", "X", "Y", "Z",
    "À", "Á", "Â", "Ã", "Ä", "Å", "Æ", "Ç", "È", "É", "Ê", "Ë", "Ì", "Í", "Î", "Ï", "Ð", "Ñ", "Ò", "Ó", "Ô", "Õ", "Ö", "Ø", "Ù", "Ú", "Û", "Ü", "Ý", "Þ">>
LowerCase ==
  <<"a", "b", "c", "d", "e", "f", "g", "h", "i", "j", "k", "l", "m", "n", "o", "p", "q", "r", "s", "t", "u", "v", "w", "x", "y", "z",
    "à", "á", "â", "ã", "ä", "å", "æ", "ç", "è", "é", "ê", "ë", "ì", "í", "î", "ï", "ð", "ñ", "ò", "ó", "ô", "õ", "ö", "ø", "ù", "ú", "û", "ü", "ý", "þ">>
LowerOf ==
  [c \in {UpperCase[i] : i \in 1..Len(UpperCase)} |->
     LowerCase[CHOOSE i \in 1..Len(UpperCase) : UpperCase[i] = c]]
lower_char(c) == IF c \in DOMAIN LowerOf THEN LowerOf[c] ELSE c

\* str.lower() on a sequence of characters.
lower_chars(s) == [i \in 1..Len(s) |-> lower_char(s[i])]

\* str.lower() on a string (a suffix): each character is lowered.
RECURSIVE lower(_)
lower(s) ==
  IF s = "" THEN "" ELSE lower_char(Head(s)) \o lower(Tail(s))

\* ------------------------------------------------------------------------
\* LineCounts
\* ------------------------------------------------------------------------

\* LineCounts(): the dataclass defaults.
LineCounts0 == [total |-> 0, blank |-> 0, comment |-> 0, code |-> 0]

\* A plausible slip in add: the total is overwritten instead of summed.
LineCounts_add_overwrite(self, other) ==
  [total |-> other.total,
   blank |-> self.blank + other.blank,
   comment |-> self.comment + other.comment,
   code |-> self.code + other.code]

\* A plausible slip: a field is summed with another field of other.
LineCounts_add_wrong_field(self, other) ==
  [total |-> self.total + other.total,
   blank |-> self.blank + other.comment,
   comment |-> self.comment + other.comment,
   code |-> self.code + other.code]

\* LineCounts.add: the value of self after self.add(other).
LineCounts_add(self, other) ==
  [total |-> self.total + other.total,
   blank |-> self.blank + other.blank,
   comment |-> self.comment + other.comment,
   code |-> self.code + other.code]

ConsistentLC(lc) == lc.total = lc.blank + lc.comment + lc.code

\* ------------------------------------------------------------------------
\* The body of the line loop of count_lines_with_heuristics
\* ------------------------------------------------------------------------

\* The locals of one scan: counts and the three state variables.
ScanState0 ==
  [counts |-> LineCounts0,
   in_block_comment |-> FALSE,
   in_py_triple |-> FALSE,
   py_triple_delim |-> None]

\* counts.<field> += 1
Bump(st, field) == [st EXCEPT !.counts[field] = @ + 1]

\* A plausible slip: a span is closed by either delimiter, not only by the
\* one that opened it.
py_triple_branch_any_delim(st, stripped) ==
  IF ~st.in_py_triple
  THEN [Bump(st, "comment") EXCEPT !.in_py_triple = TRUE,
                                   !.py_triple_delim = stripped]
  ELSE IF \E d \in TRIPLE_DELIMS : endswith(stripped, d)
       THEN [Bump(st, "comment") EXCEPT !.in_py_triple = FALSE,
                                        !.py_triple_delim = None]
       ELSE Bump(st, "comment")

\* A plausible slip: the line that closes the span leaves the delimiter
\* recorded.
py_triple_branch_keeps_delim(st, stripped) ==
  IF ~st.in_py_triple
  THEN [Bump(st, "comment") EXCEPT !.in_py_triple = TRUE,
                                   !.py_triple_delim = stripped]
  ELSE IF st.py_triple_delim # None /\ endswith(stripped, st.py_triple_delim)
       THEN [Bump(st, "comment") EXCEPT !.in_py_triple = FALSE]
       ELSE Bump(st, "comment")

\* The python branch, for the lines on which it ends in "continue": a
\* delimiter-only line outside a span, or any line inside a span.
py_triple_branch(st, stripped) ==
  IF ~st.in_py_triple
  THEN [Bump(st, "comment") EXCEPT !.in_py_triple = TRUE,
                                   !.py_triple_delim = stripped]
  ELSE IF st.py_triple_delim # None /\ endswith(stripped, st.py_triple_delim)
       THEN [Bump(st, "comment") EXCEPT !.in_py_triple = FALSE,
                                        !.py_triple_delim = None]
       ELSE Bump(st, "comment")

\* A plausible slip: a line that starts with a delimiter opens a span, not
\* only a line that is a delimiter.
py_triple_handles_startswith(st, stripped) ==
  st.in_py_triple \/ \E d \in TRIPLE_DELIMS : startswith(stripped, d)

\* Whether the python branch handles the line (else it falls through to the
\* c-like and hash tests).
py_triple_handles(st, stripped) ==
  st.in_py_triple \/ stripped \in TRIPLE_DELIMS

\* A plausible slip: the block is closed only by a line that ends with the
\* close token, not by one that contains it.
c_like_branch_close_at_end(st, stripped) ==
  IF st.in_block_comment
  THEN IF endswith(stripped, <<"*", "/">>)
       THEN [Bump(st, "comment") EXCEPT !.in_block_comment = FALSE]
       ELSE Bump(st, "comment")
  ELSE IF startswith(stripped, <<"/", "/">>)
       THEN Bump(st, "comment")
       ELSE IF startswith(stripped, <<"/", "*">>)
            THEN IF ~contains(stripped, <<"*", "/">>)
                 THEN [Bump(st, "comment") EXCEPT !.in_block_comment = TRUE]
                 ELSE Bump(st, "comment")
            ELSE Bump(st, "code")

\* A plausible slip: outside a block, an opener anywhere in the line makes
\* the line a comment and may open the block.
c_like_branch_open_anywhere(st, stripped) ==
  IF st.in_block_comment
  THEN IF contains(stripped, <<"*", "/">>)
       THEN [Bump(st, "comment") EXCEPT !.in_block_comment = FALSE]
       ELSE Bump(st, "comment")
  ELSE IF startswith(stripped, <<"/", "/">>)
       THEN Bump(st, "comment")
       ELSE IF contains(stripped, <<"/", "*">>)
            THEN IF ~contains(stripped, <<"*", "/">>)
                 THEN [Bump(st, "comment") EXCEPT !.in_block_comment = TRUE]
                 ELSE Bump(st, "comment")
            ELSE Bump(st, "code")

\* The c-like branch.
c_like_branch(st, stripped) ==
  IF st.in_block_comment
  THEN IF contains(stripped, <<"*", "/">>)
       THEN [Bump(st, "comment") EXCEPT !.in_block_comment = FALSE]
       ELSE Bump(st, "comment")
  ELSE IF startswith(stripped, <<"/", "/">>)
       THEN Bump(st, "comment")
       ELSE IF startswith(stripped, <<"/", "*">>)
            THEN IF ~contains(stripped, <<"*", "/">>)
                 THEN [Bump(st, "comment") EXCEPT !.in_block_comment = TRUE]
                 ELSE Bump(st, "comment")
            ELSE Bump(st, "code")

\* A plausible slip: a hash anywhere in the line makes it a comment.
hash_branch_anywhere(st, stripped) ==
  IF contains(stripped, <<"#">>)
  THEN Bump(st, "comment")
  ELSE Bump(st, "code")

\* The hash branch.
hash_branch(st, stripped) ==
  IF startswith(stripped, <<"#">>)
  THEN Bump(st, "comment")
  ELSE Bump(st, "code")

\* The rule family the dispatch gives an extension: the first of the three
\* tests (python, c-like, hash) that the extension passes, else none.
rule_family(e) ==
  IF e \in PY_TRIPLE_EXTS THEN "python-triple"
  ELSE IF e \in C_LIKE_EXTS THEN "c-like"
  ELSE IF e \in HASH_COMMENT_EXTS THEN "hash"
  ELSE "none"

\* A plausible slip: an extension in no table is given the hash rule.
classify_nonblank_default_hash(st, ext, stripped) ==
  IF ext \in PY_TRIPLE_EXTS /\ py_triple_handles(st, stripped)
  THEN py_triple_branch(st, stripped)
  ELSE IF ext \in C_LIKE_EXTS
       THEN c_like_branch(st, stripped)
       ELSE hash_branch(st, stripped)

\* A plausible slip: the python extensions are missing from the hash table,
\* so a python line the span tests do not handle is code.
classify_nonblank_python_no_hash(st, ext, stripped) ==
  IF ext \in PY_TRIPLE_EXTS /\ py_triple_handles(st, stripped)
  THEN py_triple_branch(st, stripped)
  ELSE IF ext \in C_LIKE_EXTS
       THEN c_like_branch(st, stripped)
       ELSE IF ext \in HASH_COMMENT_EXTS \ PY_TRIPLE_EXTS
            THEN hash_branch(st, stripped)
            ELSE Bump(st, "code")

\* The dispatch on a non-blank line.
classify_nonblank(st, ext, stripped) ==
  IF ext \in PY_TRIPLE_EXTS /\ py_triple_handles(st, stripped)
  THEN py_triple_branch(st, stripped)
  ELSE IF ext \in C_LIKE_EXTS
       THEN c_like_branch(st, stripped)
       ELSE IF ext \in HASH_COMMENT_EXTS
            THEN hash_branch(st, stripped)
            ELSE Bump(st, "code")

\* A plausible slip: the blank branch lacks its "continue", so a blank line
\* goes on to the dispatch.
process_line_no_continue(st, ext, rawline) ==
  LET counted == Bump(st, "total")
      stripped == strip(rstrip_nl(rawline))
  IN IF stripped = <<>>
     THEN classify_nonblank(Bump(counted, "blank"), ext, stripped)
     ELSE classify_nonblank(counted, ext, stripped)

\* A plausible slip: the open-span tests come before the blank test, so a
\* blank line inside a span is a comment line.
process_line_span_first(st, ext, rawline) ==
  LET counted == Bump(st, "total")
      stripped == strip(rstrip_nl(rawline))
  IN IF stripped = <<>> /\ ~st.in_block_comment /\ ~st.in_py_triple
     THEN Bump(counted, "blank")
     ELSE classify_nonblank(counted, ext, stripped)

\* One iteration of "for raw in f": counted is the state once counts.total
\* is incremented, stripped the value assigned at line 166.
process_line(st, ext, rawline) ==
  CHOOSE after \in
    {IF stripped = <<>>
     THEN Bump(counted, "blank")
     ELSE classify_nonblank(counted, ext, stripped) :
       counted \in {Bump(st, "total")},
       stripped \in {strip(rstrip_nl(rawline))}} : TRUE

\* ------------------------------------------------------------------------
\* Inputs: the raw lines a file may yield, each as "for raw in f" yields it
\* (with its newline, which only the last line of a file may lack)
\* ------------------------------------------------------------------------

\* an empty line
L_empty ==
  <<"\n">>

\* a line of whitespace only
L_spaces ==
  <<" ", " ", "\t", "\n">>

\* three spaces, no newline: the last line of a file
L_spaces3 ==
  <<" ", " ", " ">>

\* a no-break space (U+00A0) and a next-line character (U+0085): white space
\* of str.isspace() outside ASCII
L_nbsp ==
  <<" ", "", "\n">>

\* a ''' delimiter on a line of its own
L_sq ==
  <<"'", "'", "'", "\n">>

\* a """ delimiter on a line of its own
L_dq ==
  <<"\"", "\"", "\"", "\n">>

\* an indented """ delimiter
L_dq_indented ==
  <<" ", " ", "\"", "\"", "\"", " ", "\n">>

\* text
L_doc ==
  <<"d", "o", "c", " ", "l", "i", "n", "e", "\n">>

\* text ending with '''
L_end_sq ==
  <<"e", "n", "d", "'", "'", "'", "\n">>

\* text ending with """
L_end_dq ==
  <<"e", "n", "d", "\"", "\"", "\"", "\n">>

\* a docstring opened and closed on one line
L_oneliner ==
  <<"\"", "\"", "\"", "o", "n", "e", "-", "l", "i", "n", "e", "r", "\"", "\"", "\"", "\n">>

\* a ''' delimiter followed by text
L_sq_text ==
  <<"'", "'", "'", "t", "e", "x", "t", "\n">>

\* a hash comment
L_note ==
  <<"#", " ", "n", "o", "t", "e", "\n">>

\* an indented bare hash
L_note_indented ==
  <<"\t", "#", "\n">>

\* code
L_assign ==
  <<"x", " ", "=", " ", "1", "\n">>

\* code with a trailing hash
L_assign_note ==
  <<"x", " ", "=", " ", "1", " ", "#", " ", "c", "\n">>

\* a block comment opened and left open
L_start ==
  <<"/", "*", " ", "s", "t", "a", "r", "t", "\n">>

\* text
L_middle ==
  <<"m", "i", "d", "d", "l", "e", "\n">>

\* text ending with the close token
L_end ==
  <<"e", "n", "d", " ", "*", "/", "\n">>

\* code, no newline: the last line of a file
L_code ==
  <<"c", "o", "d", "e", ";">>

\* a block comment opened and closed on one line
L_block ==
  <<"/", "*", " ", "c", " ", "*", "/", "\n">>

\* an indented line comment
L_slashes ==
  <<" ", " ", "/", "/", " ", "c", "\n">>

\* code followed by a block opener
L_trailing_open ==
  <<"x", ";", " ", "/", "*", "\n">>

\* the close token followed by code
L_close_code ==
  <<"*", "/", " ", "x", ";", "\n">>

\* a block opener whose star also ends a close token
L_open_slash ==
  <<"/", "*", "/", "\n">>

LinePool ==
  {L_empty, L_spaces, L_spaces3, L_sq,
   L_dq, L_dq_indented, L_doc, L_end_sq,
   L_end_dq, L_oneliner, L_sq_text, L_note,
   L_note_indented, L_assign, L_assign_note, L_start,
   L_middle, L_end, L_code, L_block,
   L_slashes, L_trailing_open, L_close_code, L_open_slash,
   L_nbsp}

\* The worked examples of the specification, as files.
ExCLike == <<L_start, L_middle, L_end, L_code>>
ExPython == <<L_sq, L_doc, L_sq, L_assign>>
ExHash == <<L_note, L_assign, L_empty, L_spaces3>>
ExOneLiner == <<L_oneliner>>
\* Further files: a block opener inside an open block; a span that meets
\* the other delimiter before its own.
ExReopened == <<L_start, L_start, L_close_code, L_code>>
ExOtherDelim == <<L_sq, L_end_dq, L_end_sq, L_assign>>
Examples == {ExCLike, ExPython, ExHash, ExOneLiner, ExReopened, ExOtherDelim}

Prefixes(f) == {SubSeq(f, 1, k) : k \in 0..Len(f)}
ExamplePrefixes == UNION {Prefixes(f) : f \in Examples}

\* What `seen` holds once the lines read are no longer the start of an
\* example (no file yields an empty raw line, so this is no prefix).
Untracked == << <<>> >>

\* path.suffix of the files scanned.  The suffixes are ASCII: TLC does not keep
\* a character above U+007F intact inside a string of a state it has written
\* to its queue, while a line or a name, a sequence of characters, may hold one.
Suffixes == {".py", ".PY", ".pyi", ".java", ".Java", ".css", ".sh", ".yml", ".xyz", ".md", ""}

\* What the sniff of the first bytes meets: text, a NUL byte, an I/O error,
\* or an open that never returns (a named pipe that no process writes to:
\* iter_files yields every name that is not a directory).
SniffOutcomes == {"text", "nul", "error", "blocks"}

\* Whether path.open("rb") of line 144 returns or raises; if not,
\* detect_text_file and the call of count_lines_with_heuristics around it
\* never return.
open_returns(outcome) == outcome # "blocks"

\* detect_text_file, when the open returns or raises: True iff the prefix
\* was read and holds no NUL byte.
detect_text_file(outcome) == outcome = "text"

\* ------------------------------------------------------------------------
\* count_lines_with_heuristics as a function of the file
\* ------------------------------------------------------------------------

\* The loop over the lines of a file, from the state st: the state after
\* the first line (next, computed once) is the state the rest starts from.
RECURSIVE scan_lines(_, _, _)
scan_lines(st, e, lines) ==
  IF lines = <<>>
  THEN st
  ELSE CHOOSE after \in {scan_lines(next, e, Tail(lines)) :
                           next \in {process_line(st, e, Head(lines))}} : TRUE

\* A plausible slip: the except clause returns the counts made so far.
count_lines_with_heuristics_partial(f) ==
  IF ~detect_text_file(f.sniff)
  THEN <<>>
  ELSE IF f.fail_at = 0
       THEN <<scan_lines(ScanState0, lower(f.suffix), f.lines).counts>>
       ELSE <<scan_lines(ScanState0, lower(f.suffix),
                         SubSeq(f.lines, 1, f.fail_at - 1)).counts>>

\* A plausible slip: a file that yields no line is given None, as an
\* unreadable file is.
count_lines_with_heuristics_empty_is_none(f) ==
  IF ~detect_text_file(f.sniff)
  THEN <<>>
  ELSE IF f.fail_at = 0 /\ f.lines # <<>>
       THEN <<scan_lines(ScanState0, lower(f.suffix), f.lines).counts>>
       ELSE <<>>

\* count_lines_with_heuristics on a file as the scan meets it: path.suffix,
\* what the sniff meets, the lines the file yields, and fail_at: 0 if the open
\* and every read succeed, k if the k-th read (for k = 1, the open or the
\* first read) raises.  The result is <<counts>>, or <<>> for None.  The call
\* returns only if open_returns(f.sniff).
count_lines_with_heuristics(f) ==
  IF ~detect_text_file(f.sniff)
  THEN <<>>
  ELSE IF f.fail_at = 0
       THEN <<scan_lines(ScanState0, lower(f.suffix), f.lines).counts>>
       ELSE <<>>

\* ------------------------------------------------------------------------
\* Profiles and the test-file heuristic
\* ------------------------------------------------------------------------

PROFILE_EXTS ==
  [java |-> {".java", ".kt", ".groovy", ".gradle", ".xml", ".properties", ".yml", ".yaml", ".md", ".txt"},
   python |-> {".py", ".pyi", ".toml", ".ini", ".cfg", ".yml", ".yaml", ".md", ".txt"},
   js |-> {".js", ".jsx", ".ts", ".tsx", ".json", ".css", ".scss", ".html", ".md", ".txt", ".yml", ".yaml"},
   all |-> {}]

\* Path segments and file names are sequences of characters.
TEST_DIR_HINTS ==
  {<<"t", "e", "s", "t">>,
   <<"t", "e", "s", "t", "s">>,
   <<"_", "_", "t", "e", "s", "t", "s", "_", "_">>,
   <<"s", "p", "e", "c">>,
   <<"s", "p", "e", "c", "s">>,
   <<"t", "e", "s", "t", "i", "n", "g">>}

JS_TEST_EXTS == {".js", ".jsx", ".ts", ".tsx"}
PY_TEST_EXTS == {".py", ".pyi"}
JAVA_TEST_EXTS == {".java", ".kt", ".groovy"}

\* The alternatives of the three name patterns, lower-cased (the patterns
\* are matched with re.IGNORECASE).
JsNameMarks == {<<".", "t", "e", "s", "t">>,
                <<".", "s", "p", "e", "c">>}
JsNameExts == {<<".", "j", "s">>,
               <<".", "j", "s", "x">>,
               <<".", "t", "s">>,
               <<".", "t", "s", "x">>}
PyNamePrefix == <<"t", "e", "s", "t", "_">>
PyNameSuffix == <<"_", "t", "e", "s", "t">>
PyNameExts == {<<".", "p", "y">>,
               <<".", "p", "y", "i">>}
JavaNameMarks == {<<"t", "e", "s", "t">>,
                  <<"t", "e", "s", "t", "s">>,
                  <<"i", "t">>,
                  <<"i", "t", "c", "a", "s", "e">>}
JavaNameExts == {<<".", "j", "a", "v", "a">>,
                 <<".", "k", "t">>,
                 <<".", "g", "r", "o", "o", "v", "y">>}
PathTestDirs == {<<"t", "e", "s", "t">>,
                 <<"t", "e", "s", "t", "s">>}

\* What "." of a pattern matches: any character but the newline.
no_newline(s) == \A i \in 1..Len(s) : s[i] # "\n"

\* Where "$" of a pattern matches: at the end of the text and before a
\* newline that is its last character.  The texts that may end at "$".
up_to_dollar(s) ==
  {s} \cup (IF s # <<>> /\ s[Len(s)] = "\n"
            THEN {SubSeq(s, 1, Len(s) - 1)}
            ELSE {})

\* _JS_TEST_NAME_RE.match(name): .*, a mark, an extension, $
js_test_name(name) ==
  \E t \in up_to_dollar(lower_chars(name)), m \in JsNameMarks, e \in JsNameExts :
    /\ endswith(t, m \o e)
    /\ no_newline(SubSeq(t, 1, Len(t) - Len(m \o e)))

\* _PY_TEST_NAME_RE.match(name): ^, test_.* or .*_test, an extension, $
py_test_name(name) ==
  \E t \in up_to_dollar(lower_chars(name)), e \in PyNameExts :
    /\ endswith(t, e)
    /\ LET stem == SubSeq(t, 1, Len(t) - Len(e))
       IN /\ no_newline(stem)
          /\ startswith(stem, PyNamePrefix) \/ endswith(stem, PyNameSuffix)

\* _JAVA_TEST_NAME_RE.match(name): .*, a mark, an extension, $
java_test_name(name) ==
  \E t \in up_to_dollar(lower_chars(name)), m \in JavaNameMarks, e \in JavaNameExts :
    /\ endswith(t, m \o e)
    /\ no_newline(SubSeq(t, 1, Len(t) - Len(m \o e)))

\* str(path): the directories and the name, joined by "/".
RECURSIVE join_parts(_)
join_parts(parts) ==
  IF Len(parts) = 1
  THEN parts[1]
  ELSE parts[1] \o <<"/">> \o join_parts(Tail(parts))
path_str(path) == join_parts(Append(path.dirs, path.name))

\* .replace("\\", "/")
backslash_to_slash(s) == [i \in 1..Len(s) |-> IF s[i] = "\\" THEN "/" ELSE s[i]]

\* The search of (?:^|/)(?:src/)?(?:test|tests)/, case-insensitively, in
\* the text of the path with its backslashes turned into slashes: at the
\* start of the text or after a "/", an optional "src/", then "test/" or
\* "tests/".
path_has_test_dir(path) ==
  \E text \in {lower_chars(backslash_to_slash(path_str(path)))} :
    \E i \in 1..Len(text) :
      /\ i = 1 \/ text[i - 1] = "/"
      /\ \E src \in {<<>>, <<"s", "r", "c", "/">>}, d \in PathTestDirs :
           startswith(SubSeq(text, i, Len(text)), src \o d \o <<"/">>)

\* is_test_file(path, profile); path.parts are the directories and the name.
is_test_file(path, suffix_of_path, profile) ==
  \E e \in {lower(suffix_of_path)}, parts \in {Append(path.dirs, path.name)} :
     \/ \E i \in 1..Len(parts) : lower_chars(parts[i]) \in TEST_DIR_HINTS
     \/ profile \in {"js", "all"} /\ e \in JS_TEST_EXTS /\ js_test_name(path.name)
     \/ profile \in {"python", "all"} /\ e \in PY_TEST_EXTS /\ py_test_name(path.name)
     \/ profile \in {"java", "all"} /\ e \in JAVA_TEST_EXTS /\ java_test_name(path.name)
     \/ path_has_test_dir(path)

\* ext_key(path)
ext_key(suffix_of_path) ==
  IF lower(suffix_of_path) # "" THEN lower(suffix_of_path) ELSE "(no_ext)"

\* pick_profile_exts(profile)
pick_profile_exts(profile) == PROFILE_EXTS[profile]

\* ------------------------------------------------------------------------
\* Inputs of main: the files the walk yields and the arguments
\* ------------------------------------------------------------------------

\* A file: its path (directories and name), path.suffix, st_size, whether
\* stat succeeds, whether the path is one of self_files, and what the scan
\* meets (sniff, lines, fail_at).

\* a python file with a docstring span
F_doc_py ==
  [path |-> [dirs |-> << <<"s", "r", "c">> >>, name |-> <<"a", ".", "p", "y">>],
   suffix |-> ".py", st_size |-> 40, stat |-> "ok", is_self |-> FALSE,
   sniff |-> "text", lines |-> ExPython, fail_at |-> 0]

\* a python test file
F_test_py ==
  [path |-> [dirs |-> << <<"t", "e", "s", "t", "s">> >>, name |-> <<"t", "e", "s", "t", "_", "a", ".", "p", "y">>],
   suffix |-> ".py", st_size |-> 25, stat |-> "ok", is_self |-> FALSE,
   sniff |-> "text", lines |-> ExOneLiner, fail_at |-> 0]

\* a python file whose third read raises, after two lines were counted
F_partial_py ==
  [path |-> [dirs |-> << <<"s", "r", "c">> >>, name |-> <<"b", ".", "P", "Y">>],
   suffix |-> ".PY", st_size |-> 40, stat |-> "ok", is_self |-> FALSE,
   sniff |-> "text", lines |-> ExOtherDelim, fail_at |-> 3]

\* an empty python file
F_empty_py ==
  [path |-> [dirs |-> << <<"s", "r", "c">> >>, name |-> <<"e", "m", "p", "t", "y", ".", "p", "y">>],
   suffix |-> ".py", st_size |-> 0, stat |-> "ok", is_self |-> FALSE,
   sniff |-> "text", lines |-> <<>>, fail_at |-> 0]

\* a java file; its name ends with IT, case-insensitively
F_edit_java ==
  [path |-> [dirs |-> << <<"s", "r", "c">> >>, name |-> <<"E", "d", "i", "t", ".", "j", "a", "v", "a">>],
   suffix |-> ".java", st_size |-> 120, stat |-> "ok", is_self |-> FALSE,
   sniff |-> "text", lines |-> ExCLike, fail_at |-> 0]

\* a file with a NUL byte in its first bytes
F_blob_java ==
  [path |-> [dirs |-> << <<"l", "i", "b">> >>, name |-> <<"B", "l", "o", "b", ".", "J", "a", "v", "a">>],
   suffix |-> ".Java", st_size |-> 9000, stat |-> "ok", is_self |-> FALSE,
   sniff |-> "nul", lines |-> <<>>, fail_at |-> 0]

\* a shell script
F_run_sh ==
  [path |-> [dirs |-> <<>>, name |-> <<"r", "u", "n", ".", "s", "h">>],
   suffix |-> ".sh", st_size |-> 33, stat |-> "ok", is_self |-> FALSE,
   sniff |-> "text", lines |-> ExHash, fail_at |-> 0]

\* a path whose stat fails
F_gone_yml ==
  [path |-> [dirs |-> << <<"c", "o", "n", "f">> >>, name |-> <<"g", "o", "n", "e", ".", "y", "m", "l">>],
   suffix |-> ".yml", st_size |-> 0, stat |-> "fail", is_self |-> FALSE,
   sniff |-> "text", lines |-> <<>>, fail_at |-> 0]

\* the tool's own file
F_self ==
  [path |-> [dirs |-> <<>>, name |-> <<"p", "r", "o", "j", "m", "e", "t", "r", "i", "c", "s", ".", "p", "y">>],
   suffix |-> ".py", st_size |-> 13507, stat |-> "ok", is_self |-> TRUE,
   sniff |-> "text", lines |-> ExPython, fail_at |-> 0]

\* a text file without extension
F_license ==
  [path |-> [dirs |-> <<>>, name |-> <<"L", "I", "C", "E", "N", "S", "E">>],
   suffix |-> "", st_size |-> 7, stat |-> "ok", is_self |-> FALSE,
   sniff |-> "text", lines |-> <<L_doc, L_note>>, fail_at |-> 0]

\* a file whose sniff raises
F_locked_xyz ==
  [path |-> [dirs |-> << <<"T", "e", "s", "t">> >>, name |-> <<"l", "o", "c", "k", "e", "d", ".", "x", "y", "z">>],
   suffix |-> ".xyz", st_size |-> 5, stat |-> "ok", is_self |-> FALSE,
   sniff |-> "error", lines |-> <<>>, fail_at |-> 0]

\* a named pipe with no writer: stat succeeds, the open of the sniff blocks
F_pipe ==
  [path |-> [dirs |-> << <<"r", "u", "n">> >>, name |-> <<"q", ".", "p", "y">>],
   suffix |-> ".py", st_size |-> 0, stat |-> "ok", is_self |-> FALSE,
   sniff |-> "blocks", lines |-> <<>>, fail_at |-> 0]

\* a file whose open for reading raises
F_unopened_css ==
  [path |-> [dirs |-> << <<"w", "e", "b">> >>, name |-> <<"s", "i", "t", "e", ".", "c", "s", "s">>],
   suffix |-> ".css", st_size |-> 64, stat |-> "ok", is_self |-> FALSE,
   sniff |-> "text", lines |-> ExReopened, fail_at |-> 1]

FilePool ==
  {F_doc_py, F_test_py, F_partial_py, F_empty_py,
   F_edit_java, F_blob_java, F_run_sh, F_gone_yml,
   F_self, F_license, F_locked_xyz, F_unopened_css,
   F_pipe}

\* The arguments main reads: the profile picked by pick_profile, and the
\* flags --only-profile-exts and --test-ratio.
ArgSets ==
  [profile : {"java", "python", "js", "all"},
   only_profile_exts : BOOLEAN,
   test_ratio : BOOLEAN]

\* restrict_to_profile = bool(args.only_profile_exts) and len(profile_exts) > 0
restrict_to_profile(a) ==
  a.only_profile_exts /\ pick_profile_exts(a.profile) # {}

\* ------------------------------------------------------------------------
\* The state of main and the body of its loop
\* ------------------------------------------------------------------------

\* Totals(), TestTotals(), 0 and the two empty lists.
EmptyDict == [k \in {} |-> 0]
Totals0 ==
  [files |-> 0, bytes |-> 0, lines |-> LineCounts0,
   by_ext_files |-> EmptyDict, by_ext_lines |-> EmptyDict]
TestTotals0 ==
  [test_files |-> 0, non_test_files |-> 0,
   test_lines |-> LineCounts0, non_test_lines |-> LineCounts0]
Main0 ==
  [totals |-> Totals0,
   test_totals |-> TestTotals0,
   unreadable_text_files |-> 0,
   largest |-> <<>>,
   longest |-> <<>>]

\* d.get(k, default) and d[k] = v
dict_get(d, k, default) == IF k \in DOMAIN d THEN d[k] ELSE default
dict_set(d, k, v) == [x \in DOMAIN d \cup {k} |-> IF x = k THEN v ELSE d[x]]

\* A loop that would go on to the counting although stat raised.
is_counted_despite_stat(f, a) ==
  /\ ~f.is_self
  /\ ~(restrict_to_profile(a) /\ ext_key(f.suffix) \notin pick_profile_exts(a.profile))

\* Whether the loop goes past its three "continue"s for the file, to the
\* counting of lines 317-319.
is_counted(f, a) ==
  /\ ~f.is_self
  /\ f.stat = "ok"
  /\ ~(restrict_to_profile(a) /\ ext_key(f.suffix) \notin pick_profile_exts(a.profile))

\* Lines 317-319: the file, its bytes and its extension are counted.
count_file(m, f) ==
  LET e == ext_key(f.suffix)
  IN [m EXCEPT !.totals.files = @ + 1,
               !.totals.bytes = @ + f.st_size,
               !.totals.by_ext_files = dict_set(@, e, dict_get(@, e, 0) + 1)]

\* Lines 332-343: the test or non-test totals take the file.
add_test_ratio(m, f, a, lc) ==
  IF ~a.test_ratio
  THEN m
  ELSE IF is_test_file(f.path, f.suffix, a.profile)
       THEN [m EXCEPT !.test_totals.test_files = @ + 1,
                      !.test_totals.test_lines = LineCounts_add(@, lc)]
       ELSE [m EXCEPT !.test_totals.non_test_files = @ + 1,
                      !.test_totals.non_test_lines = LineCounts_add(@, lc)]

\* A plausible slip: the counts are merged into the grand LineCounts and
\* not into those of the extension.
merge_counts_grand_only(m, f, a, lc) ==
  LET fm == [path |-> f.path, size_bytes |-> f.st_size, lines_total |-> lc.total]
      merged ==
        [m EXCEPT !.totals.lines = LineCounts_add(@, lc),
                  !.largest = Append(@, fm),
                  !.longest = Append(@, fm)]
  IN add_test_ratio(merged, f, a, lc)

\* Lines 326-343: the counts of a readable file are merged.
merge_counts(m, f, a, lc) ==
  LET e == ext_key(f.suffix)
      fm == [path |-> f.path, size_bytes |-> f.st_size, lines_total |-> lc.total]
      merged ==
        [m EXCEPT !.totals.lines = LineCounts_add(@, lc),
                  !.totals.by_ext_lines =
                     dict_set(@, e, LineCounts_add(dict_get(@, e, LineCounts0), lc)),
                  !.largest = Append(@, fm),
                  !.longest = Append(@, fm)]
  IN add_test_ratio(merged, f, a, lc)

\* One iteration of the loop of main on the file f; lc is the value of the
\* one call of count_lines_with_heuristics.  The iteration ends only if the
\* file is not counted or open_returns(f.sniff).
loop_body(m, f, a) ==
  IF ~is_counted(f, a)
  THEN m
  ELSE CHOOSE after \in
         {IF lc = <<>>
          THEN [count_file(m, f) EXCEPT !.unreadable_text_files = @ + 1]
          ELSE merge_counts(count_file(m, f), f, a, lc[1]) :
            lc \in {count_lines_with_heuristics(f)}} : TRUE

\* list.sort(key=..., reverse=True): stable, largest key first.
insert_desc(sorted, x, key) ==
  LET k == Cardinality({i \in 1..Len(sorted) : sorted[i][key] >= x[key]})
  IN SubSeq(sorted, 1, k) \o <<x>> \o SubSeq(sorted, k + 1, Len(sorted))

RECURSIVE sort_desc_from(_, _, _)
sort_desc_from(sorted, rest, key) ==
  IF rest = <<>>
  THEN sorted
  ELSE sort_desc_from(insert_desc(sorted, Head(rest), key), Tail(rest), key)

sort_desc(s, key) == sort_desc_from(<<>>, s, key)

\* ------------------------------------------------------------------------
\* State
\* ------------------------------------------------------------------------

VARIABLES
  \* one call of count_lines_with_heuristics, step by step
  suffix,            \* path.suffix of the file being scanned
  sniff,             \* what detect_text_file meets on this file
  pc,                \* "sniff" (for ever, if the open blocks), "loop",
                     \* "returned" (counts) or "none" (None)
  raw,               \* the line the loop read last, <<>> before the first
  counts,            \* the local counts
  in_block_comment,  \* the local in_block_comment
  in_py_triple,      \* the local in_py_triple
  py_triple_delim,   \* the local py_triple_delim
  result,            \* the value returned: <<counts>>, or <<>> for None
  seen,              \* the lines read so far while they start an example
  left_open,         \* whether the call before ended inside a block or span
  \* main
  files,             \* the files iter_files yields in this run
  args,              \* the arguments of this run
  todo,              \* the files iter_files has not yet yielded
  mpc,               \* "loop", then "done" once the lists are sorted, or
                     \* "blocked" inside a call that never returns
  totals,            \* the local totals
  test_totals,       \* the local test_totals
  unreadable_text_files,
  largest,
  longest,
  \* LineCounts.add on its own
  lcA, lcB, lcC,     \* three LineCounts values
  merged             \* what merging them gives, <<>> before

scan_vars ==
  <<suffix, sniff, pc, raw, counts, in_block_comment, in_py_triple,
    py_triple_delim, result, seen, left_open>>
main_vars ==
  <<files, args, todo, mpc, totals, test_totals, unreadable_text_files,
    largest, longest>>
merge_vars == <<lcA, lcB, lcC, merged>>
vars == <<scan_vars, main_vars, merge_vars>>

\* The values the variables of the parts not running keep.
ScanIdle ==
  /\ suffix = "" /\ sniff = "text" /\ pc = "idle" /\ raw = <<>>
  /\ counts = LineCounts0 /\ in_block_comment = FALSE /\ in_py_triple = FALSE
  /\ py_triple_delim = None /\ result = <<>> /\ seen = <<>>
  /\ left_open = FALSE
MainIdle ==
  /\ files = {} /\ args = [profile |-> "all", only_profile_exts |-> FALSE, test_ratio |-> FALSE]
  /\ todo = {} /\ mpc = "idle"
  /\ totals = Totals0 /\ test_totals = TestTotals0
  /\ unreadable_text_files = 0 /\ largest = <<>> /\ longest = <<>>
MergeIdle ==
  /\ lcA = LineCounts0 /\ lcB = LineCounts0 /\ lcC = LineCounts0
  /\ merged = <<>>

\* ext = path.suffix.lower()
ext == lower(suffix)

\* The locals of the scan as one record.
scan_state ==
  [counts |-> counts,
   in_block_comment |-> in_block_comment,
   in_py_triple |-> in_py_triple,
   py_triple_delim |-> py_triple_delim]

\* The locals of main as one record.
main_state ==
  [totals |-> totals,
   test_totals |-> test_totals,
   unreadable_text_files |-> unreadable_text_files,
   largest |-> largest,
   longest |-> longest]

\* ------------------------------------------------------------------------
\* count_lines_with_heuristics, step by step
\* ------------------------------------------------------------------------

\* A call that would find in its flags what the call before left in them.
scan_locals_init_keep_flags(stale) == [stale EXCEPT !.counts = LineCounts0]

\* Lines 155-160: counts, in_block_comment, in_py_triple and py_triple_delim
\* are new locals of the call, whatever `stale`, the call before, left.
scan_locals_init(stale) == ScanState0

ScanInit ==
  /\ suffix \in Suffixes
  /\ sniff \in SniffOutcomes
  /\ pc = "sniff"
  /\ raw = <<>>
  /\ counts = LineCounts0
  /\ in_block_comment = FALSE
  /\ in_py_triple = FALSE
  /\ py_triple_delim = None
  /\ result = <<>>
  /\ seen = <<>>
  /\ left_open = FALSE
  /\ MainIdle
  /\ MergeIdle

\* Entry: the sniff, then the initialisation of the locals; no step if the
\* open of the sniff never returns.
Enter ==
  /\ pc = "sniff"
  /\ open_returns(sniff)
  /\ IF detect_text_file(sniff)
     THEN /\ pc' = "loop"
          /\ counts' = scan_locals_init(scan_state).counts
          /\ in_block_comment' = scan_locals_init(scan_state).in_block_comment
          /\ in_py_triple' = scan_locals_init(scan_state).in_py_triple
          /\ py_triple_delim' = scan_locals_init(scan_state).py_triple_delim
     ELSE /\ pc' = "none"
          /\ UNCHANGED <<counts, in_block_comment, in_py_triple, py_triple_delim>>
  /\ UNCHANGED <<suffix, sniff, raw, result, seen, left_open, main_vars, merge_vars>>

\* Only the last line of a file lacks its newline: another line follows
\* `last` only if `last` ends with one (or nothing was read yet).
ends_with_newline(last) ==
  IF last = <<>> THEN TRUE ELSE last[Len(last)] = "\n"

\* One iteration of the loop on the next line of the file.
ReadLine ==
  /\ pc = "loop"
  /\ counts.total < MaxLines
  /\ ends_with_newline(raw)
  /\ \E l \in LinePool :
       LET st == process_line(scan_state, ext, l)
       IN /\ raw' = l
          /\ counts' = st.counts
          /\ in_block_comment' = st.in_block_comment
          /\ in_py_triple' = st.in_py_triple
          /\ py_triple_delim' = st.py_triple_delim
          /\ seen' = IF seen # Untracked /\ Append(seen, l) \in ExamplePrefixes
                     THEN Append(seen, l)
                     ELSE Untracked
  /\ UNCHANGED <<suffix, sniff, pc, result, left_open, main_vars, merge_vars>>

\* A scan that would take the end of the file inside an open block or span
\* for an error, and return None.
EndOfFile_open_is_error ==
  /\ pc = "loop"
  /\ IF in_block_comment \/ in_py_triple
     THEN pc' = "none" /\ result' = <<>>
     ELSE pc' = "returned" /\ result' = <<counts>>
  /\ UNCHANGED <<suffix, sniff, raw, counts, in_block_comment, in_py_triple,
                 py_triple_delim, seen, left_open, main_vars, merge_vars>>

\* The file is exhausted: return counts.
EndOfFile ==
  /\ pc = "loop"
  /\ pc' = "returned"
  /\ result' = <<counts>>
  /\ UNCHANGED <<suffix, sniff, raw, counts, in_block_comment, in_py_triple,
                 py_triple_delim, seen, left_open, main_vars, merge_vars>>

\* open or a read raises: except Exception: return None.
ReadFails ==
  /\ pc = "loop"
  /\ pc' = "none"
  /\ result' = <<>>
  /\ UNCHANGED <<suffix, sniff, raw, counts, in_block_comment, in_py_triple,
                 py_triple_delim, seen, left_open, main_vars, merge_vars>>

\* The next call, on another file; the locals of the call before are dead
\* values until Enter assigns them.
Call ==
  /\ pc \in {"returned", "none"}
  /\ suffix' \in Suffixes
  /\ sniff' \in SniffOutcomes
  /\ pc' = "sniff"
  /\ raw' = <<>>
  /\ result' = <<>>
  /\ seen' = <<>>
  /\ left_open' = (in_block_comment \/ in_py_triple)
  /\ UNCHANGED <<counts, in_block_comment, in_py_triple, py_triple_delim,
                 main_vars, merge_vars>>

ScanNext == Enter \/ ReadLine \/ EndOfFile \/ ReadFails \/ Call

Spec == ScanInit /\ [][ScanNext]_vars

\* ------------------------------------------------------------------------
\* main: the loop over the files, then the sorting of the two lists
\* ------------------------------------------------------------------------

MainInit ==
  /\ files \in {S \in SUBSET FilePool : Cardinality(S) <= MaxFiles}
  /\ args \in ArgSets
  /\ todo = files
  /\ mpc = "loop"
  /\ totals = Main0.totals
  /\ test_totals = Main0.test_totals
  /\ unreadable_text_files = Main0.unreadable_text_files
  /\ largest = Main0.largest
  /\ longest = Main0.longest
  /\ ScanIdle
  /\ MergeIdle

\* The loop takes the file f, the next one iter_files yields, in an
\* iteration that ends.
Take(f) ==
  \E m \in {loop_body(main_state, f, args)} :
     /\ todo' = todo \ {f}
     /\ totals' = m.totals
     /\ test_totals' = m.test_totals
     /\ unreadable_text_files' = m.unreadable_text_files
     /\ largest' = m.largest
     /\ longest' = m.longest
     /\ UNCHANGED <<files, args, mpc, scan_vars, merge_vars>>

\* The file is one of self_files, or its stat raises, or its extension is
\* not of the profile: "continue".
SkipFile ==
  /\ mpc = "loop"
  /\ \E f \in todo : ~is_counted(f, args) /\ Take(f)

\* The file is counted and count_lines_with_heuristics returns None.
CountUnreadable ==
  /\ mpc = "loop"
  /\ \E f \in todo :
       /\ is_counted(f, args) /\ open_returns(f.sniff)
       /\ count_lines_with_heuristics(f) = <<>>
       /\ Take(f)

\* The file is counted and its LineCounts are merged.
CountReadable ==
  /\ mpc = "loop"
  /\ \E f \in todo :
       /\ is_counted(f, args) /\ open_returns(f.sniff)
       /\ count_lines_with_heuristics(f) # <<>>
       /\ Take(f)

\* The file is counted (lines 317-319) and the open of the sniff, inside the
\* call of line 321, never returns: the loop goes no further.
OpenBlocks ==
  /\ mpc = "loop"
  /\ \E f \in todo :
       /\ is_counted(f, args) /\ ~open_returns(f.sniff)
       /\ \E m \in {count_file(main_state, f)} :
            /\ todo' = todo \ {f}
            /\ totals' = m.totals
            /\ mpc' = "blocked"
            /\ UNCHANGED <<files, args, test_totals, unreadable_text_files,
                           largest, longest, scan_vars, merge_vars>>

\* iter_files is exhausted: the two lists are sorted and the report printed.
Report ==
  /\ mpc = "loop"
  /\ todo = {}
  /\ mpc' = "done"
  /\ largest' = sort_desc(largest, "size_bytes")
  /\ longest' = sort_desc(longest, "lines_total")
  /\ UNCHANGED <<files, args, todo, totals, test_totals, unreadable_text_files,
                 scan_vars, merge_vars>>

MainNext == SkipFile \/ CountUnreadable \/ CountReadable \/ OpenBlocks \/ Report

SpecMain == MainInit /\ [][MainNext]_vars

\* main is a sequential program: while an iteration of the loop, or the
\* sorting after it, is possible, it is executed.  A call that never returns
\* is the step OpenBlocks, after which no step is possible.
SpecMainFair == MainInit /\ [][MainNext]_vars /\ WF_vars(MainNext)

\* ------------------------------------------------------------------------
\* LineCounts.add on its own
\* ------------------------------------------------------------------------

LineCountsValues ==
  [total : 0..MaxCount, blank : 0..MaxCount,
   comment : 0..MaxCount, code : 0..MaxCount]

MergeInit ==
  /\ lcA \in LineCountsValues
  /\ lcB \in LineCountsValues
  /\ lcC \in LineCountsValues
  /\ merged = <<>>
  /\ ScanIdle
  /\ MainIdle

\* The values are merged in both groupings and both orders.
Merge ==
  /\ merged = <<>>
  /\ merged' = <<[ab |-> LineCounts_add(lcA, lcB),
                  ba |-> LineCounts_add(lcB, lcA),
                  ab_c |-> LineCounts_add(LineCounts_add(lcA, lcB), lcC),
                  a_bc |-> LineCounts_add(lcA, LineCounts_add(lcB, lcC))]>>
  /\ UNCHANGED <<lcA, lcB, lcC, scan_vars, main_vars>>

MergeNext == Merge

SpecMerge == MergeInit /\ [][MergeNext]_vars

\* ------------------------------------------------------------------------
\* Properties of the line classifier (checked under Spec)
\* ------------------------------------------------------------------------

\* A step of the loop that read a line: the line is raw', and its trimmed
\* form is Stripped'.
ReadStep == pc = "loop" /\ pc' = "loop" /\ counts'.total # counts.total
Stripped == strip(rstrip_nl(raw))
NonBlankRead == ReadStep /\ Stripped' # <<>>

\* The locals hold values of the call in progress or just ended.
LocalsLive == pc \in {"loop", "returned"} \/ (pc = "none" /\ detect_text_file(sniff))

CountsAfter(t, b, cm, cd) ==
  counts = [total |-> t, blank |-> b, comment |-> cm, code |-> cd]

FlagsUnchanged ==
  UNCHANGED <<in_block_comment, in_py_triple, py_triple_delim>>

\* The line read was counted as blank, as comment, as code.
CountedBlank ==
  /\ counts'.blank = counts.blank + 1
  /\ counts'.comment = counts.comment
  /\ counts'.code = counts.code
CountedComment ==
  /\ counts'.blank = counts.blank
  /\ counts'.comment = counts.comment + 1
  /\ counts'.code = counts.code
CountedCode ==
  /\ counts'.blank = counts.blank
  /\ counts'.comment = counts.comment
  /\ counts'.code = counts.code + 1

\* C1: in every state of a scan total = blank + comment + code; each line
\* read adds exactly 1 to total and exactly 1 to exactly one of blank,
\* comment, code; and no counter decreases while the file is scanned.
C1_TotalIsSum ==
  /\ [](ConsistentLC(counts))
  /\ [][ReadStep =>
          /\ counts'.total = counts.total + 1
          /\ CountedBlank \/ CountedComment \/ CountedCode]_vars
  /\ [][pc = "loop" =>
          \A f \in {"total", "blank", "comment", "code"} :
            counts'[f] >= counts[f]]_vars

\* A scan has returned counts with a line of each kind.
C1_Witness ==
  /\ pc = "returned"
  /\ result = <<counts>>
  /\ counts.blank >= 1 /\ counts.comment >= 1 /\ counts.code >= 1

\* C2: whatever the extension and the scan state, a line whose trimmed form
\* is empty is counted as blank, not as comment or code, and leaves
\* in_block_comment, in_py_triple and py_triple_delim as they were.
C2_BlankLine ==
  [][ReadStep /\ Stripped' = <<>> => CountedBlank /\ FlagsUnchanged]_vars

\* A blank line was read inside an open block comment, which stays open.
C2_Witness ==
  /\ pc = "loop"
  /\ raw # <<>> /\ Stripped = <<>>
  /\ in_block_comment
  /\ counts.blank >= 1

\* C3: for a c-like extension the scan enters a block comment only on a
\* line that starts with "/*" and does not contain "*/"; inside the block
\* every non-blank line is a comment and the block ends exactly on a line
\* that contains "*/", whether or not "/*" occurred again; outside the
\* block a line is classified from its own text alone.  The files
\* "/* start", "middle", "end */", "code;" and "/* start", "/* start",
\* "*/ x;", "code;" give total 4, comment 3, code 1.
C3_BlockComment ==
  /\ [][NonBlankRead /\ rule_family(ext) = "c-like" =>
          IF in_block_comment
          THEN /\ CountedComment
               /\ in_block_comment' = ~contains(Stripped', <<"*", "/">>)
          ELSE /\ in_block_comment' =
                    (startswith(Stripped', <<"/", "*">>)
                       /\ ~contains(Stripped', <<"*", "/">>))
               /\ IF startswith(Stripped', <<"/", "/">>)
                       \/ startswith(Stripped', <<"/", "*">>)
                  THEN CountedComment
                  ELSE CountedCode]_vars
  /\ [](rule_family(ext) = "c-like" /\ seen \in {ExCLike, ExReopened} =>
          CountsAfter(4, 0, 3, 1) /\ ~in_block_comment)

\* The file with a second opener inside the block was scanned to its end.
C3_Witness ==
  /\ rule_family(ext) = "c-like"
  /\ seen = ExReopened
  /\ pc = "returned"
  /\ result = <<[total |-> 4, blank |-> 0, comment |-> 3, code |-> 1]>>

\* C4: for a python extension a line that is exactly ''' or """, met outside
\* a span, opens a span, records that delimiter and is a comment; inside a
\* span every non-blank line is a comment, and the span is closed exactly by
\* a line that ends with the recorded delimiter (not by one that ends with
\* the other).  The files "'''", "doc line", "'''", "x = 1" and "'''",
\* 'end"""', "end'''", "x = 1" give total 4, comment 3, code 1.
C4_TripleQuote ==
  /\ [][NonBlankRead /\ rule_family(ext) = "python-triple" =>
          IF in_py_triple
          THEN /\ CountedComment
               /\ IF endswith(Stripped', py_triple_delim)
                  THEN ~in_py_triple' /\ py_triple_delim' = None
                  ELSE in_py_triple' /\ py_triple_delim' = py_triple_delim
          ELSE Stripped' \in TRIPLE_DELIMS =>
                 /\ CountedComment
                 /\ in_py_triple'
                 /\ py_triple_delim' = Stripped']_vars
  /\ [](rule_family(ext) = "python-triple" /\ seen \in {ExPython, ExOtherDelim} =>
          CountsAfter(4, 0, 3, 1) /\ ~in_py_triple /\ py_triple_delim = None)

\* The file whose span meets the other delimiter first was scanned to its end.
C4_Witness ==
  /\ rule_family(ext) = "python-triple"
  /\ seen = ExOtherDelim
  /\ pc = "returned"
  /\ result = <<[total |-> 4, blank |-> 0, comment |-> 3, code |-> 1]>>

\* A delimiter, then text, then the same delimiter.
OneLineDocstring(s) ==
  \E d \in TRIPLE_DELIMS :
    Len(s) > 2 * Len(d) /\ startswith(s, d) /\ endswith(s, d)

\* C5 as stated: for a python extension, a line that is a delimiter, text
\* and the same delimiter, met outside a span, opens a span and is counted
\* as a comment line.
C5_AsStated ==
  [][NonBlankRead /\ rule_family(ext) = "python-triple" /\ ~in_py_triple
       /\ OneLineDocstring(Stripped') =>
       CountedComment /\ in_py_triple']_vars

\* C5 amended: for a python extension, a line that is a delimiter, text and
\* the same delimiter, met outside a span, opens no span: it is given the
\* hash rule, so it is counted as code and the scan state is unchanged.
C5_OneLineDocstringIsCode ==
  [][NonBlankRead /\ rule_family(ext) = "python-triple" /\ ~in_py_triple
       /\ OneLineDocstring(Stripped') =>
       CountedCode /\ FlagsUnchanged /\ ~in_py_triple']_vars

\* The file that is the one line """one-liner""" was read.
C5_Witness ==
  /\ rule_family(ext) = "python-triple"
  /\ seen = ExOneLiner
  /\ OneLineDocstring(Stripped)
  /\ CountsAfter(1, 0, 0, 1)
  /\ ~in_py_triple

\* C6: for an extension in none of the tables every non-blank line is
\* counted as code whatever it starts with, so comment stays 0 and the scan
\* state keeps its initial value.
C6_NoRuleFamily ==
  /\ [][NonBlankRead /\ rule_family(ext) = "none" =>
          CountedCode /\ FlagsUnchanged]_vars
  /\ [](rule_family(ext) = "none" /\ LocalsLive =>
          /\ counts.comment = 0
          /\ ~in_block_comment /\ ~in_py_triple /\ py_triple_delim = None)

\* A .xyz file whose only line so far is "# note" has code = 1.
C6_Witness ==
  /\ ext = ".xyz"
  /\ pc = "loop"
  /\ raw = L_note
  /\ CountsAfter(1, 0, 0, 1)

\* C7: for an extension of the hash family a non-blank line is counted as
\* comment if its trimmed form starts with "#" and as code if not, whatever
\* was read before, and the scan state is unchanged.  The file "# note",
\* "x = 1", "", "   " gives total 4, blank 2, comment 1, code 1.
C7_HashFamily ==
  /\ [][NonBlankRead /\ rule_family(ext) = "hash" =>
          /\ IF startswith(Stripped', <<"#">>)
             THEN CountedComment
             ELSE CountedCode
          /\ FlagsUnchanged]_vars
  /\ [](rule_family(ext) = "hash" /\ seen = ExHash => CountsAfter(4, 2, 1, 1))
  /\ [](rule_family(ext) = "hash" /\ LocalsLive =>
          ~in_block_comment /\ ~in_py_triple)

\* The hash example was scanned to its end.
C7_Witness ==
  /\ rule_family(ext) = "hash"
  /\ seen = ExHash
  /\ pc = "returned"
  /\ result = <<[total |-> 4, blank |-> 2, comment |-> 1, code |-> 1]>>

\* ------------------------------------------------------------------------
\* Properties of the loop of main (checked under SpecMain)
\* ------------------------------------------------------------------------

\* The scan of the file does not yield counts: the sniff meets a NUL byte or
\* raises, or the open or a read raises (after fail_at - 1 lines).
FoundUnreadable(f) == f.sniff \in {"nul", "error"} \/ f.fail_at # 0

\* C8: when a file whose stat succeeded, and which the loop counts, is found
\* unreadable, the run goes on, the file is added to the file count, the
\* byte total and the file count of its extension, the unreadable counter
\* grows by 1, and the grand and per-extension LineCounts are unchanged.
C8_UnreadableFile ==
  [][\A f \in todo :
       (/\ todo' = todo \ {f}
        /\ is_counted(f, args)
        /\ FoundUnreadable(f))
       =>
       (/\ mpc' = "loop"
        /\ totals'.files = totals.files + 1
        /\ totals'.bytes = totals.bytes + f.st_size
        /\ DOMAIN totals'.by_ext_files = DOMAIN totals.by_ext_files \cup {ext_key(f.suffix)}
        /\ \A k \in DOMAIN totals'.by_ext_files :
             totals'.by_ext_files[k] =
               dict_get(totals.by_ext_files, k, 0) + (IF k = ext_key(f.suffix) THEN 1 ELSE 0)
        /\ unreadable_text_files' = unreadable_text_files + 1
        /\ totals'.lines = totals.lines
        /\ totals'.by_ext_lines = totals.by_ext_lines)]_vars

\* After a readable file, a file whose read raised once lines had been
\* counted was taken: it is counted as a file and as unreadable, and the
\* LineCounts are those of the readable file alone.
C8_Witness ==
  /\ mpc = "loop"
  /\ \E f, g \in files \ todo :
       /\ is_counted(f, args) /\ f.sniff = "text" /\ f.fail_at > 1
       /\ is_counted(g, args) /\ ~FoundUnreadable(g)
       /\ files \ todo = {f, g}
       /\ totals.files = 2
       /\ totals.bytes = f.st_size + g.st_size
       /\ unreadable_text_files = 1
       /\ totals.lines.total = Len(g.lines)
       /\ totals.lines.total > 0

\* What the report shows of the aggregation: the file count, the byte total,
\* the grand LineCounts, the per-extension file counts and LineCounts, and
\* the unreadable counter.
Aggregate(m) ==
  [files |-> m.totals.files,
   bytes |-> m.totals.bytes,
   lines |-> m.totals.lines,
   by_ext_files |-> m.totals.by_ext_files,
   by_ext_lines |-> m.totals.by_ext_lines,
   unreadable_text_files |-> m.unreadable_text_files]

\* The loop run on the files of S in one fixed order.
RECURSIVE in_fixed_order(_, _)
in_fixed_order(S, a) ==
  IF S = {}
  THEN Main0
  ELSE LET f == CHOOSE x \in S : TRUE
       IN loop_body(in_fixed_order(S \ {f}, a), f, a)

\* C9: whatever the order in which the loop took the files, the final
\* aggregate is the one a run in one fixed order gives for the same files
\* and arguments.
C9_OrderIndependent ==
  mpc = "done" => Aggregate(main_state) = Aggregate(in_fixed_order(files, args))

\* A run has ended that merged two readable files and met an unreadable one.
C9_Witness ==
  /\ mpc = "done"
  /\ Cardinality({f \in files : is_counted(f, args) /\ ~FoundUnreadable(f)
                                  /\ f.lines # <<>>}) >= 2
  /\ \E f \in files : is_counted(f, args) /\ FoundUnreadable(f)
  /\ unreadable_text_files >= 1
  /\ totals.lines.total >= 2

\* ------------------------------------------------------------------------
\* Properties of LineCounts.add (checked under SpecMerge)
\* ------------------------------------------------------------------------

\* C10: merging is associative and commutative, and the merge of two values
\* that satisfy total = blank + comment + code satisfies it.
C10_MergeLaws ==
  merged # <<>> =>
    /\ merged[1].ab_c = merged[1].a_bc
    /\ merged[1].ab = merged[1].ba
    /\ ConsistentLC(lcA) /\ ConsistentLC(lcB) => ConsistentLC(merged[1].ab)

\* Three different values, the first two consistent and not zero, were merged.
C10_Witness ==
  /\ merged # <<>>
  /\ lcA # lcB /\ lcB # lcC /\ lcA # lcC
  /\ ConsistentLC(lcA) /\ ConsistentLC(lcB)
  /\ lcA.total > 0 /\ lcB.total > 0 /\ lcC.total > 0
  /\ merged[1].ab.total = lcA.total + lcB.total

\* ------------------------------------------------------------------------
\* Further properties of count_lines_with_heuristics (checked under Spec)
\* ------------------------------------------------------------------------

\* C11: every scan starts with in_block_comment false, in_py_triple false
\* and no delimiter recorded, whatever the call before left, so the counts
\* of a file are those its extension and its lines alone give (the ones a
\* first scan gives), also after a file that ended inside an open block
\* comment or triple-quote span.
C11_NoLeakBetweenFiles ==
  /\ [][pc = "sniff" /\ pc' = "loop" =>
          /\ counts' = LineCounts0
          /\ ~in_block_comment' /\ ~in_py_triple' /\ py_triple_delim' = None]_vars
  /\ [](LocalsLive /\ seen \in ExamplePrefixes =>
          scan_state = scan_lines(ScanState0, ext, seen))

\* After a file that ended inside an open block or span, a python file that
\* starts with a closing delimiter was scanned: its first line opened a span.
C11_Witness ==
  /\ left_open
  /\ pc = "returned"
  /\ rule_family(ext) = "python-triple"
  /\ seen = ExPython
  /\ result = <<[total |-> 4, blank |-> 0, comment |-> 3, code |-> 1]>>

\* ------------------------------------------------------------------------
\* Further properties of the loop of main (checked under SpecMain, the
\* one about termination under SpecMainFair)
\* ------------------------------------------------------------------------

\* C12: when the stat of a file raises, the file changes nothing: the file
\* count, the byte total, the per-extension file counts, the grand and
\* per-extension LineCounts, the unreadable counter, the largest and longest
\* lists and the test and non-test totals are as before, and the loop goes
\* on with the files that remain.
C12_StatFailureSkips ==
  [][\A f \in todo :
       (todo' = todo \ {f} /\ f.stat = "fail")
       =>
       (/\ totals' = totals
        /\ test_totals' = test_totals
        /\ unreadable_text_files' = unreadable_text_files
        /\ largest' = largest
        /\ longest' = longest
        /\ mpc' = "loop"
        /\ files' = files)]_vars

\* After a file was counted, a file whose stat raises was taken, of an
\* extension the profile filter lets through, and a file remains.
C12_Witness ==
  /\ mpc = "loop"
  /\ todo # {}
  /\ \E f, g \in files \ todo :
       /\ files \ todo = {f, g}
       /\ f.stat = "fail" /\ ~f.is_self
       /\ ~(restrict_to_profile(args) /\ ext_key(f.suffix) \notin pick_profile_exts(args.profile))
       /\ is_counted(g, args)
       /\ totals.files = 1
       /\ totals.bytes = g.st_size
       /\ DOMAIN totals.by_ext_files = {ext_key(g.suffix)}

\* How the loop resolves the file f under the arguments a, read off the
\* file: skipped by one of the three "continue"s, unreadable, or counted;
\* or not at all ("blocked"), when the loop reaches the sniff of the file and
\* its open never returns.
Outcome(f, a) ==
  IF \/ f.is_self
     \/ f.stat = "fail"
     \/ (a.only_profile_exts /\ PROFILE_EXTS[a.profile] # {}
           /\ ext_key(f.suffix) \notin PROFILE_EXTS[a.profile])
  THEN "skipped"
  ELSE IF ~open_returns(f.sniff) THEN "blocked"
  ELSE IF FoundUnreadable(f) THEN "unreadable" ELSE "counted"

\* The files of the run that the loop has taken and resolved as `o`.
Resolved(o) == {f \in files \ todo : Outcome(f, args) = o}

\* C13: whatever files are enumerated and whichever of them fail, the loop
\* takes one file at a time and never one again, each file taken is resolved
\* as exactly one of skipped (nothing changes), unreadable (counted as a file
\* and in the unreadable counter) or counted (counted as a file and merged),
\* and the run reaches the report with no file left and every file resolved
\* once (the counts, between iterations and at the report, are those of the
\* files resolved): nothing stalls it.  The code does not do this for a file
\* whose open blocks (F_pipe): the file is counted as a file, then the run
\* stays inside detect_text_file for ever, the file neither unreadable nor
\* counted, and the report is never reached.
C13_EveryFileResolvedOnce ==
  /\ <>(mpc = "done")
  /\ [](mpc = "done" => todo = {})
  /\ [][mpc = "loop" /\ mpc' = "loop" =>
          \E f \in todo :
            /\ todo' = todo \ {f}
            /\ CASE Outcome(f, args) = "skipped" ->
                      /\ totals' = totals
                      /\ unreadable_text_files' = unreadable_text_files
                      /\ largest' = largest
                 [] Outcome(f, args) = "unreadable" ->
                      /\ totals'.files = totals.files + 1
                      /\ unreadable_text_files' = unreadable_text_files + 1
                      /\ largest' = largest
                 [] Outcome(f, args) = "counted" ->
                      /\ totals'.files = totals.files + 1
                      /\ unreadable_text_files' = unreadable_text_files
                      /\ Len(largest') = Len(largest) + 1]_vars
  /\ [](mpc \in {"loop", "done"} =>
          /\ totals.files = Cardinality(Resolved("unreadable")) + Cardinality(Resolved("counted"))
          /\ unreadable_text_files = Cardinality(Resolved("unreadable"))
          /\ Len(largest) = Cardinality(Resolved("counted"))
          /\ Len(longest) = Cardinality(Resolved("counted")))

\* ------------------------------------------------------------------------
\* The opener lines and the python hash rule (checked under Spec)
\* ------------------------------------------------------------------------

\* C14: for a c-like extension, outside a block comment, a non-blank line
\* whose trimmed form starts with "/*" is a comment and leaves the scan
\* inside a block exactly if the trimmed form does not contain "*/"; a line
\* that does not start with "/*" leaves the scan outside, and code followed
\* by a trailing "/*" is counted as code.
C14_BlockOpener ==
  /\ [][NonBlankRead /\ rule_family(ext) = "c-like" /\ ~in_block_comment =>
          IF startswith(Stripped', <<"/", "*">>)
          THEN /\ CountedComment
               /\ in_block_comment' <=> ~contains(Stripped', <<"*", "/">>)
          ELSE ~in_block_comment']_vars
  /\ [][NonBlankRead /\ rule_family(ext) = "c-like" /\ ~in_block_comment
          /\ ~startswith(Stripped', <<"/", "*">>)
          /\ contains(Stripped', <<"/", "*">>) =>
          CountedCode /\ ~in_block_comment']_vars

\* A c-like file: after a comment line that left the scan outside a block,
\* code with a trailing "/*" was counted as code and the scan is outside.
C14_Witness ==
  /\ rule_family(ext) = "c-like"
  /\ pc = "loop"
  /\ raw = L_trailing_open
  /\ CountsAfter(2, 0, 1, 1)
  /\ ~in_block_comment

\* C15: for a python extension, outside a span, a non-blank line whose
\* trimmed form is neither ''' nor """ is a comment if the trimmed form
\* starts with "#" and code if not, and leaves the scan state unchanged;
\* inside a span every non-blank line is a comment, whether or not it
\* starts with "#".
C15_PythonHashRule ==
  [][NonBlankRead /\ rule_family(ext) = "python-triple" =>
       IF in_py_triple
       THEN CountedComment
       ELSE Stripped' \notin TRIPLE_DELIMS =>
              /\ IF startswith(Stripped', <<"#">>)
                 THEN CountedComment
                 ELSE CountedCode
              /\ FlagsUnchanged]_vars

\* A python file: one line was counted as code outside a span, and the line
\* read last, code with a trailing hash inside the open span, as a comment.
C15_Witness ==
  /\ rule_family(ext) = "python-triple"
  /\ pc = "loop"
  /\ in_py_triple
  /\ raw = L_assign_note
  /\ CountsAfter(4, 0, 3, 1)

\* The file just scanned, as the loop of main meets it when its stat
\* succeeds: its suffix, its sniff and the lines read, none of which failed.
ScannedFile ==
  [path |-> [dirs |-> <<>>, name |-> <<"f">>],
   suffix |-> suffix, st_size |-> Len(seen), stat |-> "ok", is_self |-> FALSE,
   sniff |-> sniff, lines |-> seen, fail_at |-> 0]

\* C16: when the file ends inside an open block comment or an open
\* triple-quote span the scan returns its counts, not None; each non-blank
\* line read while the block or span is open is counted as a comment; and
\* the loop of main, given such a file, counts it as a file, merges its
\* counts and does not add it to the unreadable counter.
C16_EndOfFileInsideOpen ==
  /\ [][EndOfFile /\ (in_block_comment \/ in_py_triple) =>
          pc' = "returned" /\ result' = <<counts>> /\ counts' = counts]_vars
  /\ [][NonBlankRead /\ (in_block_comment \/ in_py_triple) => CountedComment]_vars
  /\ [](pc = "returned" /\ (in_block_comment \/ in_py_triple)
          /\ seen \in ExamplePrefixes =>
          \A a \in ArgSets :
            is_counted(ScannedFile, a) =>
              LET m == loop_body(Main0, ScannedFile, a)
              IN /\ m.unreadable_text_files = 0
                 /\ m.totals.files = 1
                 /\ m.totals.lines = counts
                 /\ m.totals.by_ext_lines[ext_key(suffix)] = counts
                 /\ Len(m.largest) = 1
                 /\ m.largest[1].lines_total = counts.total)

\* A c-like file of which the block opened on the first line is never
\* closed was scanned to its end: the scan returned 2 comment lines.
C16_Witness ==
  /\ rule_family(ext) = "c-like"
  /\ pc = "returned"
  /\ in_block_comment
  /\ seen = <<L_start, L_middle>>
  /\ result = <<[total |-> 2, blank |-> 0, comment |-> 2, code |-> 0]>>

\* ------------------------------------------------------------------------
\* The line totals and the consistency of the aggregates (checked under
\* SpecMain)
\* ------------------------------------------------------------------------

\* C17: the scan of a readable file counts each of its n lines once, so the
\* file adds n to the grand total and enters the lists with lines_total = n;
\* a readable file with no line is merged as (0, 0, 0, 0): it is not added
\* to the unreadable counter, the LineCounts are unchanged, and its
\* extension has a per-extension LineCounts entry afterwards.
C17_EachLineOnce ==
  [][\A f \in todo :
       (todo' = todo \ {f} /\ Outcome(f, args) = "counted")
       =>
       LET e == ext_key(f.suffix)
       IN /\ totals'.lines.total = totals.lines.total + Len(f.lines)
          /\ largest' = Append(largest, [path |-> f.path, size_bytes |-> f.st_size,
                                         lines_total |-> Len(f.lines)])
          /\ e \in DOMAIN totals'.by_ext_lines
          /\ totals'.by_ext_lines[e].total =
               dict_get(totals.by_ext_lines, e, LineCounts0).total + Len(f.lines)
          /\ unreadable_text_files' = unreadable_text_files
          /\ f.lines = <<>> =>
               /\ totals'.lines = totals.lines
               /\ totals'.by_ext_lines[e] = dict_get(totals.by_ext_lines, e, LineCounts0)]_vars

\* The loop took a file of four lines and the empty python file, the only
\* file of its extension: the total is 4, .py has the entry (0, 0, 0, 0)
\* and no file is unreadable.
C17_Witness ==
  /\ mpc = "loop"
  /\ \E f \in files \ todo :
       /\ files \ todo = {f, F_empty_py}
       /\ Outcome(f, args) = "counted"
       /\ Len(f.lines) = 4
  /\ Outcome(F_empty_py, args) = "counted"
  /\ totals.files = 2
  /\ totals.lines.total = 4
  /\ ".py" \in DOMAIN totals.by_ext_lines
  /\ totals.by_ext_lines[".py"] = LineCounts0
  /\ unreadable_text_files = 0

\* ------------------------------------------------------------------------
\* The shape of the scan state (checked under Spec)
\* ------------------------------------------------------------------------

\* C18: in every state of a scan, in_py_triple is true exactly if a
\* delimiter is recorded, and the delimiter recorded is ''' or """;
\* in_py_triple is true only for a python extension and in_block_comment
\* only for a c-like extension, so the two are never both true.
C18_ScanStateWellFormed ==
  LocalsLive =>
    /\ in_py_triple <=> py_triple_delim # None
    /\ py_triple_delim # None => py_triple_delim \in TRIPLE_DELIMS
    /\ in_py_triple => ext \in PY_TRIPLE_EXTS
    /\ in_block_comment => ext \in C_LIKE_EXTS
    /\ ~(in_py_triple /\ in_block_comment)

\* A python scan is inside a span opened by an indented """, after a span
\* opened by ''' was closed.
C18_Witness ==
  /\ pc = "loop"
  /\ ext \in PY_TRIPLE_EXTS
  /\ in_py_triple
  /\ py_triple_delim = DQ3
  /\ raw = L_dq_indented
  /\ counts.comment >= 3

\* The sum over the values of the dict d: of the values themselves (field
\* ""), or of one field of the LineCounts they are.
RECURSIVE dict_sum(_, _)
dict_sum(d, field) ==
  IF DOMAIN d = {}
  THEN 0
  ELSE LET k == CHOOSE x \in DOMAIN d : TRUE
           rest == [x \in DOMAIN d \ {k} |-> d[x]]
       IN (IF field = "" THEN d[k] ELSE d[k][field]) + dict_sum(rest, field)

\* C19: after every file the loop has processed, the grand LineCounts are
\* the field-wise sum of the per-extension LineCounts, the file count is the
\* sum of the per-extension file counts and also the number of files merged
\* plus the unreadable counter, and the grand LineCounts satisfy
\* total = blank + comment + code.
C19_AggregatesConsistent ==
  mpc \in {"loop", "done"} =>
    /\ \A field \in {"total", "blank", "comment", "code"} :
         totals.lines[field] = dict_sum(totals.by_ext_lines, field)
    /\ totals.files = dict_sum(totals.by_ext_files, "")
    /\ totals.files = Len(largest) + unreadable_text_files
    /\ Len(longest) = Len(largest)
    /\ ConsistentLC(totals.lines)

\* Files of two extensions were merged, each with lines, and one file was
\* found unreadable.
C19_Witness ==
  /\ mpc = "loop"
  /\ Cardinality({k \in DOMAIN totals.by_ext_lines :
                    totals.by_ext_lines[k].total > 0}) = 2
  /\ unreadable_text_files = 1
  /\ totals.files = 3
  /\ Len(largest) = 2

====
